---- MODULE Spec2Model ----
(***************************************************************************)
(* rssy: the background feed-polling and ingestion pipeline.               *)
(*                                                                         *)
(*   backend/internal/services/fetcher.go   FeedFetcher                    *)
(*   backend/internal/services/poller.go    Poller                         *)
(*   backend/internal/database/*.go         the storage layer (SQLite)     *)
(*   handlers                               RefreshFeed / RefreshAllFeeds  *)
(*                                                                         *)
(* Every database call (one SQL statement) and every retrieval of a remote *)
(* document is one atomic step; the goroutines that run FetchAllFeeds or   *)
(* FetchFeed interleave between those steps.                               *)
(***************************************************************************)
EXTENDS Integers, Sequences, FiniteSets, TLC

\* ------------------------------------------------------------------ bounds
\* calls of Poller.Start(); each call spawns its own two goroutines and ticker
MaxStarts == 2
\* times a ticker fires, over all tickers
MaxTicks == 1
\* times the ticker fires when the Poller runs on a single Source
MaxLoopTicks == 2
\* manual refresh requests served, over both handler goroutines
MaxRequests == 2
\* DeleteAllPosts requests
MaxDeletes == 1
\* storage calls that fail with an unexpected error (connection lost, ...)
MaxStorageErrs == 1
\* changes of a remote document
MaxDocChanges == 1
\* direct CreatePost calls from outside the fetcher
MaxDirect == 1
\* the latest time an entry may carry as its published or updated time
MaxTime == 2
\* enclosures of an entry
MaxEnclosures == 2

\* ------------------------------------------------------------- the world
FeedIds == {1, 2, 3}

\* feeds.name of the seeded feeds, as its rank in the order GetAllFeeds sorts by:
\* 1 "Hacker News", 2 "TechCrunch", 3 "Reddit - Programming" (a fourth: "Ars Technica")
FeedName(f) == CASE f = 1 -> 2 [] f = 2 -> 4 [] f = 3 -> 3 [] OTHER -> 1

\* SQL NULL, and Go's nil
NULL == 0

\* a gofeed.Item, reduced to the fields FetchFeed's dedup path and its helper
\* functions read and one content field: PublishedParsed and UpdatedParsed (NULL for
\* nil), Image (<<>> for nil, else <<URL>>), and Enclosures
RawItem(g, t, pub, upd, img, encs) ==
  [guid |-> g, title |-> t, published |-> pub, updated |-> upd, image |-> img,
   enclosures |-> encs]

\* an item with no time, no image and no enclosure
Item(g, t) == RawItem(g, t, NULL, NULL, <<>>, <<>>)

\* the remote documents a Source's URL may serve
Docs == { <<>>,
          <<Item("p1", "a")>>,
          <<Item("p1", "a"), Item("p2", "a")>>,
          <<Item("p1", "b"), Item("p1", "a")>> }

\* the goroutines net/http runs the manual-refresh handlers on
Handlers == {<<"http", 1>>, <<"http", 2>>}

Inits == {<<"init", k>> : k \in 1..MaxStarts}

Loops == {<<"loop", k>> : k \in 1..MaxStarts}

PollerProcs == Inits \cup Loops

Procs == Handlers \cup PollerProcs

\* ------------------------------------------------- FetchFeed's helper functions
\* a MIME type is a string, kept as the sequence of its characters
ImageWord == <<"i", "m", "a", "g", "e">>

\* the MIME types an enclosure declares: "", "imag", "image/jpeg", "video/mp4"
MimeTypes ==
  { <<>>,
    <<"i", "m", "a", "g">>,
    ImageWord \o <<"/", "j", "p", "e", "g">>,
    <<"v", "i", "d", "e", "o", "/", "m", "p", "4">> }

\* a getPublishedTime that looked at the updated time first
getPublishedTimeUpdatedFirst(item) ==
  IF item.updated # NULL THEN item.updated
  ELSE IF item.published # NULL THEN item.published
  ELSE NULL

\* getPublishedTime (fetcher.go)
getPublishedTime(item) ==
  IF item.published # NULL THEN item.published
  ELSE IF item.updated # NULL THEN item.updated
  ELSE NULL

\* getImageURL's test of an enclosure:
\* enclosure.Type != "" && len(enclosure.Type) >= 5 && enclosure.Type[:5] == "image"
IsImageEnclosure(enclosure) ==
  /\ enclosure.type # <<>>
  /\ Len(enclosure.type) >= 5
  /\ SubSeq(enclosure.type, 1, 5) = ImageWord

\* getImageURL's loop over item.Enclosures, from index i on
RECURSIVE FirstImageEnclosure(_, _)
FirstImageEnclosure(encs, i) ==
  IF i > Len(encs) THEN ""
  ELSE IF IsImageEnclosure(encs[i]) THEN encs[i].url
  ELSE FirstImageEnclosure(encs, i + 1)

\* a getImageURL that fell back to the enclosures when the image's URL is empty
getImageURLUnlessEmpty(item) ==
  IF item.image # <<>> /\ item.image[1] # "" THEN item.image[1]
  ELSE FirstImageEnclosure(item.enclosures, 1)

\* getImageURL (fetcher.go)
getImageURL(item) ==
  IF item.image # <<>> THEN item.image[1]
  ELSE FirstImageEnclosure(item.enclosures, 1)

VARIABLES
  feeds,       \* table feeds: id -> row, for the ids that exist
  posts,       \* table posts: a set of rows
  nextPostId,  \* posts.id AUTOINCREMENT
  clock,       \* the wall clock time.Now() reads
  doc,         \* the document each Source's URL serves at the moment
  proc,        \* the goroutines that run the fetcher, and their locals
  started,     \* calls of Poller.Start() so far
  cancelled,   \* p.ctx is done: Poller.Stop() has called p.cancel() and returned
  tickC,       \* ticker k's channel ticker.C (capacity 1): 1 when a tick is buffered
  tickerOn,    \* ticker k was created and ticker.Stop() has not been called
  atStop,      \* (for the properties) the Poller's FetchAllFeeds runs that were in
               \* flight when Stop() was called and whose goroutine has not moved on
               \* since: pairs <<goroutine, Sources it had called FetchFeed for>>
  budget       \* what the environment may still do (the bounds above)

vars ==
  <<feeds, posts, nextPostId, clock, doc, proc, started, cancelled, tickC, tickerOn, atStop,
    budget>>

storeVars == <<feeds, posts, nextPostId>>

pollerVars == <<started, cancelled, tickC, tickerOn, atStop>>

\* ------------------------------------------------------------ the schema
\* a row of table feeds (schema.go): the columns the pipeline reads or writes
FeedRow(active) ==
  [is_active |-> active, last_fetched_at |-> NULL, error_count |-> 0, last_error |-> NULL]

\* a row of table posts as CreatePost inserts it: is_read takes its DEFAULT 0
PostRow(id, feedID, item) ==
  [id |-> id, feed_id |-> feedID, guid |-> item.guid, title |-> item.title,
   published_at |-> getPublishedTime(item), image_url |-> getImageURL(item),
   is_read |-> FALSE]

\* UNIQUE(feed_id, guid), as the buggy variant that would compare the guid alone
UniqueOKGuidOnly(feedID, guid) == \A q \in posts : q.guid # guid

\* no constraint at all
UniqueOKNone(feedID, guid) == TRUE

\* UNIQUE(feed_id, guid): may a row with this pair be inserted?
UniqueOK(feedID, guid) == \A q \in posts : ~(q.feed_id = feedID /\ q.guid = guid)

\* database.New opens the connection with "?_foreign_keys=on": SQLite enforces the
\* FOREIGN KEY clauses of the schema
ForeignKeysEnforced == TRUE

\* a posts table whose feed_id is never checked against feeds
ForeignKeyOKUnchecked(feedID) == TRUE

\* FOREIGN KEY (feed_id) REFERENCES feeds(id): may a row with this feed_id be
\* inserted?
ForeignKeyOK(feedID) == ForeignKeysEnforced => feedID \in DOMAIN feeds

\* ------------------------------------------------------- storage (database)
\* GetAllFeeds: SELECT ... FROM feeds ORDER BY name ASC, as a sequence of ids
RECURSIVE SortByName(_)
SortByName(S) ==
  IF S = {} THEN <<>>
  ELSE LET m == CHOOSE x \in S : \A y \in S : FeedName(x) <= FeedName(y)
       IN <<m>> \o SortByName(S \ {m})

\* the []models.Feed GetAllFeeds returns: a snapshot of each row
GetAllFeeds ==
  LET ids == SortByName(DOMAIN feeds)
  IN [i \in 1..Len(ids) |-> [id |-> ids[i], is_active |-> feeds[ids[i]].is_active]]

\* the rows SELECT ... WHERE guid = ? would return with the feed_id test forgotten
PostsByGUIDAnyFeed(feedID, guid) == {q \in posts : q.guid = guid}

\* the rows SELECT ... WHERE feed_id = ? AND guid = ? returns
PostsByGUID(feedID, guid) == {q \in posts : q.feed_id = feedID /\ q.guid = guid}

\* an existence check that never finds a row
GetPostByGUIDNeverFound(feedID, guid) == NULL

\* a fetcher that remembered, outside the posts table, that the Source was fetched
\* before, and took every guid of such a Source as known
GetPostByGUIDOnceFetched(feedID, guid) ==
  IF feedID \in DOMAIN feeds /\ feeds[feedID].last_fetched_at # NULL THEN 1
  ELSE IF PostsByGUID(feedID, guid) = {} THEN NULL
  ELSE (CHOOSE q \in PostsByGUID(feedID, guid) : TRUE).id

\* GetPostByGUID: nil for sql.ErrNoRows, else the first row
GetPostByGUID(feedID, guid) ==
  IF PostsByGUID(feedID, guid) = {} THEN NULL
  ELSE (CHOOSE q \in PostsByGUID(feedID, guid) : TRUE).id

\* may a storage call fail with an unexpected error now?
MayFail == budget.errs > 0

SpendErr == [budget EXCEPT !.errs = @ - 1]


\* ------------------------------------------------- goroutines and their locals
\* The locals of one goroutine: where it stands (pc), FetchAllFeeds' feeds slice
\* (list) and range index (fi), FetchFeed's parsedFeed.Items (items), range index
\* (ii), newPostCount, the time.Now() it read (now) and the error the call that
\* returned last gave (err).  The other fields record what the invocation (one
\* FetchAllFeeds, or one FetchFeed of RefreshFeed) did so far, for the properties:
\* the feeds FetchFeed was called for (fetched), those whose retrieval failed
\* (failed), those whose UPDATE of last_fetched_at ran (stamped), and the
\* <<feed, guid>> pairs it inserted (made) or had rejected as duplicates (lost);
\* prev is what the goroutine's previous FetchAllFeeds returned; stale holds the
\* feeds FetchAllFeeds called FetchFeed for when their row was no longer active.
Fresh(pc) ==
  [pc |-> pc, kind |-> "none", list |-> <<>>, fi |-> 0, items |-> <<>>, ii |-> 0,
   newPostCount |-> 0, now |-> 0, err |-> "none", prev |-> "none",
   fetched |-> {}, failed |-> {}, stamped |-> {}, made |-> {}, lost |-> {},
   stale |-> {}]

\* the row of the feed says is_active = 0 now
Deactivated(id) == id \in DOMAIN feeds /\ ~feeds[id].is_active

\* the feed (snapshot) the goroutine's FetchFeed is working on
CurFeed(r) == r.list[r.fi].id

\* the item the goroutine's FetchFeed is working on
CurItem(r) == r.items[r.ii]

\* FetchAllFeeds' range loop with the test of IsActive left out
NextAny(list, i) == i

\* a range loop that read is_active from the table again at each feed's turn
RECURSIVE NextActiveLive(_, _)
NextActiveLive(list, i) ==
  IF i > Len(list) THEN i
  ELSE IF list[i].id \in DOMAIN feeds /\ feeds[list[i].id].is_active THEN i
  ELSE NextActiveLive(list, i + 1)

\* the next index >= i of an active feed in the slice, Len+1 when there is none:
\* FetchAllFeeds' "if !feed.IsActive { continue }"
RECURSIVE NextActive(_, _)
NextActive(list, i) ==
  IF i > Len(list) THEN i
  ELSE IF list[i].is_active THEN i
  ELSE NextActive(list, i + 1)

\* a FetchAllFeeds that tested the Poller's context between two Sources and gave up
\* once it was cancelled
RangeFeedsUntilCancelled(r, i) ==
  LET j == NextActive(r.list, i)
  IN IF j > Len(r.list) \/ cancelled
     THEN [r EXCEPT !.pc = "ret", !.fi = 0, !.err = "nil"]
     ELSE [r EXCEPT !.pc = "parse", !.fi = j, !.fetched = @ \cup {r.list[j].id},
                    !.stale = @ \cup (IF Deactivated(r.list[j].id) THEN {r.list[j].id} ELSE {}),
                    !.items = <<>>, !.ii = 0, !.newPostCount = 0, !.now = 0]

\* a FetchAllFeeds that reported an error when a FetchFeed of the cycle had failed
RangeFeedsReportFailures(r, i) ==
  LET j == NextActive(r.list, i)
  IN IF j > Len(r.list)
     THEN [r EXCEPT !.pc = "ret", !.fi = 0,
                    !.err = IF r.failed = {} THEN "nil" ELSE "err"]
     ELSE [r EXCEPT !.pc = "parse", !.fi = j, !.fetched = @ \cup {r.list[j].id},
                    !.stale = @ \cup (IF Deactivated(r.list[j].id) THEN {r.list[j].id} ELSE {}),
                    !.items = <<>>, !.ii = 0, !.newPostCount = 0, !.now = 0]

\* FetchAllFeeds' range loop, from index i on: call FetchFeed for the next active
\* feed, or return nil when the slice is exhausted
RangeFeeds(r, i) ==
  LET j == NextActive(r.list, i)
  IN IF j > Len(r.list)
     THEN [r EXCEPT !.pc = "ret", !.fi = 0, !.err = "nil"]
     ELSE [r EXCEPT !.pc = "parse", !.fi = j, !.fetched = @ \cup {r.list[j].id},
                    !.stale = @ \cup (IF Deactivated(r.list[j].id) THEN {r.list[j].id} ELSE {}),
                    !.items = <<>>, !.ii = 0, !.newPostCount = 0, !.now = 0]

\* a FetchAllFeeds that returned the first error of a FetchFeed to its caller
ReturnFromFetchFeedAbort(r, e) ==
  IF r.kind = "one" \/ e = "err"
  THEN [r EXCEPT !.pc = "ret", !.err = e]
  ELSE RangeFeeds(r, r.fi + 1)

\* FetchFeed returns e: to the handler of RefreshFeed, or to FetchAllFeeds, which
\* logs an error ("Continue with other feeds even if one fails") and goes on with
\* its range loop
ReturnFromFetchFeed(r, e) ==
  IF r.kind = "one"
  THEN [r EXCEPT !.pc = "ret", !.err = e]
  ELSE RangeFeeds(r, r.fi + 1)

\* a FetchFeed that left the timestamp alone when it had inserted nothing
NextItemSkipStampIfNone(r) ==
  IF r.ii < Len(r.items)
  THEN [r EXCEPT !.pc = "check", !.ii = @ + 1]
  ELSE IF r.newPostCount = 0 THEN ReturnFromFetchFeed(r, "nil")
  ELSE [r EXCEPT !.pc = "now", !.ii = 0]

\* FetchFeed's range loop over parsedFeed.Items: on to the next item ("continue"),
\* or to the timestamp update when the items are exhausted
NextItem(r) ==
  IF r.ii < Len(r.items)
  THEN [r EXCEPT !.pc = "check", !.ii = @ + 1]
  ELSE [r EXCEPT !.pc = "now", !.ii = 0]

\* FetchAllFeeds: "feeds, err := f.db.GetAllFeeds(); if err != nil { return err }"
ListFeeds(p) ==
  /\ proc[p].pc = "list"
  /\ \/ /\ proc' = [proc EXCEPT ![p] = RangeFeeds([@ EXCEPT !.list = GetAllFeeds], 1)]
        /\ UNCHANGED budget
     \/ /\ MayFail
        /\ proc' = [proc EXCEPT ![p] = [@ EXCEPT !.pc = "ret", !.err = "err"]]
        /\ budget' = SpendErr
  /\ UNCHANGED <<storeVars, clock, doc, pollerVars>>

\* a FetchFeed that went on to the timestamp update when the retrieval failed
ParseURLStampAnyway(p) ==
  /\ proc[p].pc = "parse"
  /\ \/ proc' = [proc EXCEPT ![p] = NextItem([@ EXCEPT !.items = doc[CurFeed(proc[p])]])]
     \/ proc' = [proc EXCEPT ![p] =
                   [@ EXCEPT !.failed = @ \cup {CurFeed(proc[p])}, !.pc = "now"]]
  /\ UNCHANGED <<storeVars, clock, doc, pollerVars, budget>>

\* FetchFeed: "parsedFeed, err := f.parser.ParseURL(feed.URL); if err != nil { return err }"
\* The retrieval either yields the document the URL serves now, or fails.
ParseURL(p) ==
  /\ proc[p].pc = "parse"
  /\ \/ proc' = [proc EXCEPT ![p] = NextItem([@ EXCEPT !.items = doc[CurFeed(proc[p])]])]
     \/ proc' = [proc EXCEPT ![p] =
                   ReturnFromFetchFeed([@ EXCEPT !.failed = @ \cup {CurFeed(proc[p])}], "err")]
  /\ UNCHANGED <<storeVars, clock, doc, pollerVars, budget>>

\* a FetchFeed that refreshed the stored post from the entry when the guid is known
CheckExistingUpsert(p) ==
  /\ proc[p].pc = "check"
  /\ LET f == CurFeed(proc[p])
         it == CurItem(proc[p])
     IN \/ /\ GetPostByGUID(f, it.guid) # NULL
           /\ posts' = {IF q.feed_id = f /\ q.guid = it.guid
                        THEN [q EXCEPT !.title = it.title, !.is_read = FALSE]
                        ELSE q : q \in posts}
           /\ proc' = [proc EXCEPT ![p] = NextItem(@)]
           /\ UNCHANGED budget
        \/ /\ GetPostByGUID(f, it.guid) = NULL
           /\ proc' = [proc EXCEPT ![p] = [@ EXCEPT !.pc = "create"]]
           /\ UNCHANGED <<posts, budget>>
        \/ /\ MayFail
           /\ proc' = [proc EXCEPT ![p] = NextItem(@)]
           /\ budget' = SpendErr
           /\ UNCHANGED posts
  /\ UNCHANGED <<feeds, nextPostId, clock, doc, pollerVars>>

\* a FetchFeed that returned the error of the existence check to its caller
CheckExistingAbortOnError(p) ==
  /\ proc[p].pc = "check"
  /\ \/ /\ proc' = [proc EXCEPT ![p] =
                      IF GetPostByGUID(CurFeed(@), CurItem(@).guid) # NULL
                      THEN NextItem(@)
                      ELSE [@ EXCEPT !.pc = "create"]]
        /\ UNCHANGED budget
     \/ /\ MayFail
        /\ proc' = [proc EXCEPT ![p] = ReturnFromFetchFeed(@, "err")]
        /\ budget' = SpendErr
  /\ UNCHANGED <<storeVars, clock, doc, pollerVars>>

\* FetchFeed: "existing, err := f.db.GetPostByGUID(feed.ID, item.GUID)" and the two
\* tests after it
CheckExisting(p) ==
  /\ proc[p].pc = "check"
  /\ \/ /\ proc' = [proc EXCEPT ![p] =
                      IF GetPostByGUID(CurFeed(@), CurItem(@).guid) # NULL
                      THEN NextItem(@)
                      ELSE [@ EXCEPT !.pc = "create"]]
        /\ UNCHANGED budget
     \/ /\ MayFail
        /\ proc' = [proc EXCEPT ![p] = NextItem(@)]
        /\ budget' = SpendErr
  /\ UNCHANGED <<storeVars, clock, doc, pollerVars>>

\* CreatePost (post_repository.go): the INSERT; TRUE when it is accepted
InsertAccepted(feedID, guid) == UniqueOK(feedID, guid) /\ ForeignKeyOK(feedID)

\* a FetchFeed that gave up at the first insert error: "return err"
OnCreateErrorReturn(r) ==
  IF r.kind = "one" THEN [r EXCEPT !.pc = "ret", !.err = "err"]
  ELSE RangeFeeds(r, r.fi + 1)

\* FetchFeed: "if err := f.db.CreatePost(post); err != nil { log; continue }"
OnCreateError(r) == NextItem(r)

\* FetchFeed: "if err := f.db.CreatePost(post); err != nil { continue }; newPostCount++"
CreatePost(p) ==
  /\ proc[p].pc = "create"
  /\ LET r == proc[p]
         f == CurFeed(r)
         it == CurItem(r)
     IN \/ /\ InsertAccepted(f, it.guid)
           /\ posts' = posts \cup {PostRow(nextPostId, f, it)}
           /\ nextPostId' = nextPostId + 1
           /\ proc' = [proc EXCEPT ![p] =
                         NextItem([@ EXCEPT !.newPostCount = @ + 1,
                                            !.made = @ \cup {<<f, it.guid>>}])]
           /\ UNCHANGED budget
        \/ /\ ~InsertAccepted(f, it.guid)
           /\ proc' = [proc EXCEPT ![p] =
                         OnCreateError([@ EXCEPT !.lost = @ \cup {<<f, it.guid>>}])]
           /\ UNCHANGED <<posts, nextPostId, budget>>
        \/ /\ MayFail
           /\ proc' = [proc EXCEPT ![p] = OnCreateError(@)]
           /\ budget' = SpendErr
           /\ UNCHANGED <<posts, nextPostId>>
  /\ UNCHANGED <<feeds, clock, doc, pollerVars>>

\* FetchFeed: the argument time.Now() of the call of UpdateFeedLastFetched
ReadClock(p) ==
  /\ proc[p].pc = "now"
  /\ clock' = clock + 1
  /\ proc' = [proc EXCEPT ![p] = [@ EXCEPT !.pc = "stamp", !.now = clock + 1]]
  /\ UNCHANGED <<storeVars, doc, pollerVars, budget>>

\* an UPDATE that only ever fills an empty last_fetched_at
UpdateFeedLastFetchedIfNull(id, fetchTime) ==
  IF id \in DOMAIN feeds /\ feeds[id].last_fetched_at = NULL
  THEN [feeds EXCEPT ![id] = [@ EXCEPT !.last_fetched_at = fetchTime]]
  ELSE feeds

\* UpdateFeedLastFetched (feed_repository.go): the UPDATE ... WHERE id = ?
UpdateFeedLastFetched(id, fetchTime) ==
  IF id \in DOMAIN feeds
  THEN [feeds EXCEPT ![id] = [@ EXCEPT !.last_fetched_at = fetchTime]]
  ELSE feeds

\* FetchFeed: "if err := f.db.UpdateFeedLastFetched(feed.ID, time.Now()); err != nil
\* { log }" and "return nil"
Stamp(p) ==
  /\ proc[p].pc = "stamp"
  /\ \/ /\ feeds' = UpdateFeedLastFetched(CurFeed(proc[p]), proc[p].now)
        /\ proc' = [proc EXCEPT ![p] =
                      ReturnFromFetchFeed([@ EXCEPT !.stamped = @ \cup {CurFeed(proc[p])}], "nil")]
        /\ UNCHANGED budget
     \/ /\ MayFail
        /\ proc' = [proc EXCEPT ![p] = ReturnFromFetchFeed(@, "nil")]
        /\ budget' = SpendErr
        /\ UNCHANGED feeds
  /\ UNCHANGED <<posts, nextPostId, clock, doc, pollerVars>>

\* ------------------------------------------------------- manual refresh (handlers)
\* net/http serves each request on a goroutine of its own; a request is given the
\* first handler goroutine that is free
Free(h) ==
  /\ proc[h].pc = "idle"
  /\ \A g \in Handlers : g[2] < h[2] => proc[g].pc # "idle"

\* Handler.RefreshAllFeeds: a new FeedFetcher, then fetcher.FetchAllFeeds()
RefreshAllFeeds(h) ==
  /\ Free(h)
  /\ budget.reqs > 0
  /\ budget' = [budget EXCEPT !.reqs = @ - 1]
  /\ proc' = [proc EXCEPT ![h] = [Fresh("list") EXCEPT !.kind = "all"]]
  /\ UNCHANGED <<storeVars, clock, doc, pollerVars>>

\* a handler that refused to refresh a Source that is not active
RefreshFeedActiveOnly(h, id) ==
  /\ Free(h)
  /\ budget.reqs > 0
  /\ budget' = [budget EXCEPT !.reqs = @ - 1]
  /\ proc' = [proc EXCEPT ![h] =
                IF id \in DOMAIN feeds /\ feeds[id].is_active
                THEN [Fresh("parse") EXCEPT !.kind = "one", !.fi = 1, !.fetched = {id},
                        !.list = <<[id |-> id, is_active |-> feeds[id].is_active]>>]
                ELSE Fresh("idle")]
  /\ UNCHANGED <<storeVars, clock, doc, pollerVars>>

\* Handler.RefreshFeed: "feed, err := h.db.GetFeedByID(id)"; 404 when there is no
\* such row, else a new FeedFetcher and fetcher.FetchFeed(feed)
RefreshFeed(h, id) ==
  /\ Free(h)
  /\ budget.reqs > 0
  /\ budget' = [budget EXCEPT !.reqs = @ - 1]
  /\ proc' = [proc EXCEPT ![h] =
                IF id \in DOMAIN feeds
                THEN [Fresh("parse") EXCEPT !.kind = "one", !.fi = 1, !.fetched = {id},
                        !.list = <<[id |-> id, is_active |-> feeds[id].is_active]>>]
                ELSE Fresh("idle")]
  /\ UNCHANGED <<storeVars, clock, doc, pollerVars>>

\* the handler writes its response (500 when the fetch returned an error, else 200)
\* and the request is over
Respond(h) ==
  /\ h \in Handlers
  /\ proc[h].pc = "ret"
  /\ proc' = [proc EXCEPT ![h] = Fresh("idle")]
  /\ UNCHANGED <<storeVars, clock, doc, pollerVars, budget>>

\* ------------------------------------------------------------------- the Poller
InitOf(k) == <<"init", k>>

LoopOf(k) == <<"loop", k>>

\* a Start that left the first fetch to the ticker: only the loop is spawned
StartTickerOnly ==
  /\ started < MaxStarts
  /\ started' = started + 1
  /\ proc' = [proc EXCEPT ![LoopOf(started + 1)] = Fresh("select")]
  /\ tickerOn' = [tickerOn EXCEPT ![started + 1] = TRUE]
  /\ UNCHANGED <<storeVars, clock, doc, cancelled, tickC, atStop, budget>>

\* Poller.Start: "go func() { FetchAllFeeds }()", time.NewTicker, "go func() { for
\* { select ... } }()"; it returns without waiting for either goroutine
Start ==
  /\ started < MaxStarts
  /\ started' = started + 1
  /\ proc' = [proc EXCEPT ![InitOf(started + 1)] = Fresh("spawned"),
                          ![LoopOf(started + 1)] = Fresh("select")]
  /\ tickerOn' = [tickerOn EXCEPT ![started + 1] = TRUE]
  /\ UNCHANGED <<storeVars, clock, doc, cancelled, tickC, atStop, budget>>

\* the goroutine is inside a call of FetchAllFeeds (or of RefreshFeed's FetchFeed)
InFlight(p) == proc[p].pc \in {"list", "parse", "check", "create", "now", "stamp"}

\* Poller.Stop: p.cancel()
Stop ==
  /\ ~cancelled
  /\ cancelled' = TRUE
  /\ atStop' = {<<p, Cardinality(proc[p].fetched)>> : p \in {q \in PollerProcs : InFlight(q)}}
  /\ UNCHANGED <<storeVars, clock, doc, proc, started, tickC, tickerOn, budget>>

\* the first goroutine of Start is scheduled and calls p.fetcher.FetchAllFeeds()
InitialFetch(k) ==
  /\ proc[InitOf(k)].pc = "spawned"
  /\ proc' = [proc EXCEPT ![InitOf(k)] = [Fresh("list") EXCEPT !.kind = "all"]]
  /\ UNCHANGED <<storeVars, clock, doc, pollerVars, budget>>

\* the first goroutine after FetchAllFeeds returned: it logs an error and ends
InitialDone(k) ==
  /\ proc[InitOf(k)].pc = "ret"
  /\ proc' = [proc EXCEPT ![InitOf(k)] = Fresh("finished")]
  /\ atStop' = {a \in atStop : a[1] # InitOf(k)}
  /\ UNCHANGED <<storeVars, clock, doc, started, cancelled, tickC, tickerOn, budget>>

\* the runtime's ticker fires: a tick is put in ticker.C, or dropped when the
\* channel's one slot is taken
Tick(k) ==
  /\ tickerOn[k]
  /\ budget.ticks > 0
  /\ budget' = [budget EXCEPT !.ticks = @ - 1]
  /\ tickC' = [tickC EXCEPT ![k] = 1]
  /\ UNCHANGED <<storeVars, clock, doc, proc, started, cancelled, tickerOn, atStop>>

\* a loop that served a tick without waiting for its FetchAllFeeds to return
PollTickWhileBusy(k) ==
  /\ proc[LoopOf(k)].pc = "select" \/ InFlight(LoopOf(k))
  /\ tickC[k] = 1
  /\ tickC' = [tickC EXCEPT ![k] = 0]
  /\ proc' = [proc EXCEPT ![LoopOf(k)] = [Fresh("list") EXCEPT !.kind = "all",
                                             !.prev = proc[LoopOf(k)].prev]]
  /\ UNCHANGED <<storeVars, clock, doc, started, cancelled, tickerOn, atStop, budget>>

\* the loop's select takes "case <-ticker.C" and calls p.fetcher.FetchAllFeeds()
PollTick(k) ==
  /\ proc[LoopOf(k)].pc = "select"
  /\ tickC[k] = 1
  /\ tickC' = [tickC EXCEPT ![k] = 0]
  /\ proc' = [proc EXCEPT ![LoopOf(k)] = [Fresh("list") EXCEPT !.kind = "all",
                                             !.prev = proc[LoopOf(k)].prev]]
  /\ UNCHANGED <<storeVars, clock, doc, started, cancelled, tickerOn, atStop, budget>>

\* a loop that returned when FetchAllFeeds gave it an error
PollAgainUnlessError(k) ==
  /\ proc[LoopOf(k)].pc = "ret"
  /\ proc' = [proc EXCEPT ![LoopOf(k)] =
                IF proc[LoopOf(k)].err = "err" THEN Fresh("exited")
                ELSE [Fresh("select") EXCEPT !.prev = proc[LoopOf(k)].err]]
  /\ atStop' = {a \in atStop : a[1] # LoopOf(k)}
  /\ UNCHANGED <<storeVars, clock, doc, started, cancelled, tickC, tickerOn, budget>>

\* the loop after FetchAllFeeds returned: it logs an error and selects again
PollAgain(k) ==
  /\ proc[LoopOf(k)].pc = "ret"
  /\ proc' = [proc EXCEPT ![LoopOf(k)] = [Fresh("select") EXCEPT !.prev = proc[LoopOf(k)].err]]
  /\ atStop' = {a \in atStop : a[1] # LoopOf(k)}
  /\ UNCHANGED <<storeVars, clock, doc, started, cancelled, tickC, tickerOn, budget>>

\* the loop's select takes "case <-p.ctx.Done()": ticker.Stop() and return
PollExit(k) ==
  /\ proc[LoopOf(k)].pc = "select"
  /\ cancelled
  /\ tickerOn' = [tickerOn EXCEPT ![k] = FALSE]
  /\ proc' = [proc EXCEPT ![LoopOf(k)] = Fresh("exited")]
  /\ UNCHANGED <<storeVars, clock, doc, started, cancelled, tickC, atStop, budget>>

\* ------------------------------------------------------------- the environment
\* DeleteAllPosts (post_repository.go): DELETE FROM posts
DeleteAllPosts ==
  /\ budget.deletes > 0
  /\ budget' = [budget EXCEPT !.deletes = @ - 1]
  /\ posts' = {}
  /\ UNCHANGED <<feeds, nextPostId, clock, doc, proc, pollerVars>>

\* Handler.DeleteFeed, DeleteFeed (feed_repository.go): DELETE FROM feeds WHERE
\* id = ?, one statement; ON DELETE CASCADE removes the feed's posts with it
DeleteFeed(id) ==
  /\ budget.deletes > 0
  /\ budget' = [budget EXCEPT !.deletes = @ - 1]
  /\ feeds' = [f \in DOMAIN feeds \ {id} |-> feeds[f]]
  /\ posts' = IF ForeignKeysEnforced /\ id \in DOMAIN feeds
              THEN {q \in posts : q.feed_id # id}
              ELSE posts
  /\ UNCHANGED <<nextPostId, clock, doc, proc, pollerVars>>

\* a caller other than the fetcher calls CreatePost (the storage test program does)
DirectCreatePost(f, it) ==
  /\ budget.direct > 0
  /\ f \in DOMAIN feeds
  /\ budget' = [budget EXCEPT !.direct = @ - 1]
  /\ IF InsertAccepted(f, it.guid)
     THEN /\ posts' = posts \cup {PostRow(nextPostId, f, it)}
          /\ nextPostId' = nextPostId + 1
     ELSE UNCHANGED <<posts, nextPostId>>
  /\ UNCHANGED <<feeds, clock, doc, proc, pollerVars>>

\* Handler.MarkPostAsRead, MarkPostAsRead (post_repository.go): UPDATE posts SET
\* is_read = ? WHERE id = ?
MarkPostAsRead(id, isRead) ==
  /\ \E q \in posts : q.id = id /\ q.is_read # isRead
  /\ posts' = {IF q.id = id THEN [q EXCEPT !.is_read = isRead] ELSE q : q \in posts}
  /\ UNCHANGED <<feeds, nextPostId, clock, doc, proc, pollerVars, budget>>

\* Handler.UpdateFeed, UpdateFeed (feed_repository.go) with a request that carries
\* is_active only: UPDATE feeds SET ..., is_active = ? WHERE id = ?
UpdateFeed(id, isActive) ==
  /\ id \in DOMAIN feeds
  /\ feeds[id].is_active # isActive
  /\ feeds' = [feeds EXCEPT ![id] = [@ EXCEPT !.is_active = isActive]]
  /\ UNCHANGED <<posts, nextPostId, clock, doc, proc, pollerVars, budget>>

\* the publisher changes the document a Source's URL serves
DocChange(f, d) ==
  /\ budget.docs > 0
  /\ d # doc[f]
  /\ budget' = [budget EXCEPT !.docs = @ - 1]
  /\ doc' = [doc EXCEPT ![f] = d]
  /\ UNCHANGED <<storeVars, clock, proc, pollerVars>>

\* --------------------------------------------------------------- specification
\* what the environment may do, from the bounds
Budget(ticks, reqs, deletes, errs, docs, direct) ==
  [ticks |-> ticks, reqs |-> reqs, deletes |-> deletes, errs |-> errs, docs |-> docs,
   direct |-> direct]

\* The state after main's db.InitSchema, db.SeedDefaultFeeds and NewPoller: the
\* seeded feeds (rows), no posts, nothing fetched, the Poller constructed and not
\* started; docs are the documents the feeds' URLs serve.
InitWith(rows, docs, bud) ==
  /\ feeds = rows
  /\ posts = {}
  /\ nextPostId = 1
  /\ clock = 0
  /\ doc = docs
  /\ proc = [p \in Procs |-> IF p \in Handlers THEN Fresh("idle") ELSE Fresh("unborn")]
  /\ started = 0
  /\ cancelled = FALSE
  /\ tickC = [k \in 1..MaxStarts |-> 0]
  /\ tickerOn = [k \in 1..MaxStarts |-> FALSE]
  /\ atStop = {}
  /\ budget = bud

\* one step of FetchFeed on goroutine p
FetchFeedStep(p) ==
  \/ ParseURL(p)
  \/ CheckExisting(p)
  \/ CreatePost(p)
  \/ ReadClock(p)
  \/ Stamp(p)

\* one step of FetchAllFeeds, or of a FetchFeed it calls, on goroutine p
FetchStep(p) ==
  \/ ListFeeds(p)
  \/ FetchFeedStep(p)

\* the rows a direct caller of CreatePost inserts
DirectPosts == {<<1, Item("p1", "b")>>}

\* the documents served in every scenario: Sources 1 and 2 share the guid p1
SharedGuidDocs ==
  [f \in FeedIds |-> IF f = 1 THEN <<Item("p1", "a"), Item("p2", "a")>>
                     ELSE <<Item("p1", "a")>>]

\* Manual single-Source refreshes racing one another, DeleteAllPosts and direct
\* CreatePost calls, on two Sources.
Init ==
  InitWith([f \in {1, 2} |-> FeedRow(TRUE)], SharedGuidDocs,
           Budget(0, MaxRequests, MaxDeletes, 0, 0, MaxDirect))

Next ==
  \/ \E p \in Handlers : FetchFeedStep(p)
  \/ \E h \in Handlers, id \in FeedIds : RefreshFeed(h, id)
  \/ \E h \in Handlers : Respond(h)
  \/ DeleteAllPosts
  \/ \E d \in DirectPosts : DirectCreatePost(d[1], d[2])

Spec == Init /\ [][Next]_vars

\* Manual refreshes one after the other (a single handler goroutine), on three
\* Sources, any of whose retrievals may fail.
InitSeq ==
  InitWith([f \in FeedIds |-> FeedRow(TRUE)], SharedGuidDocs,
           Budget(0, MaxRequests, 0, 0, 0, 0))

FirstHandler == <<"http", 1>>

NextSeq ==
  \/ FetchStep(FirstHandler)
  \/ RefreshAllFeeds(FirstHandler)
  \/ \E id \in FeedIds : RefreshFeed(FirstHandler, id)
  \/ Respond(FirstHandler)

SpecSeq == InitSeq /\ [][NextSeq]_vars

\* main (cmd/api/main.go): "poller.Start()" once, "defer poller.Stop()"
MainStart == started = 0 /\ Start

MainStop == started > 0 /\ Stop

\* The Poller as main runs it: Start, the ticker, Stop, and the FetchAllFeeds runs
\* of its two goroutines, with retrievals and storage calls that may fail.
InitPoller ==
  InitWith([f \in {1, 2} |-> FeedRow(TRUE)], [f \in FeedIds |-> <<Item("p1", "a")>>],
           Budget(MaxTicks, 0, 0, MaxStorageErrs, 0, 0))

NextPoller ==
  \/ \E p \in PollerProcs : FetchStep(p)
  \/ MainStart
  \/ MainStop
  \/ \E k \in 1..MaxStarts : InitialFetch(k)
  \/ \E k \in 1..MaxStarts : InitialDone(k)
  \/ \E k \in 1..MaxStarts : Tick(k)
  \/ \E k \in 1..MaxStarts : PollTick(k)
  \/ \E k \in 1..MaxStarts : PollAgain(k)
  \/ \E k \in 1..MaxStarts : PollExit(k)

SpecPoller == InitPoller /\ [][NextPoller]_vars

\* The Go scheduler runs every runnable goroutine eventually, and a retrieval or a
\* storage call returns; a select with one case ready takes it.  Nothing is assumed
\* of the ticker or of main's Stop.
PollerFairness ==
  /\ \A p \in PollerProcs : WF_vars(FetchStep(p))
  /\ \A k \in 1..MaxStarts :
       /\ WF_vars(InitialFetch(k))
       /\ WF_vars(InitialDone(k))
       /\ WF_vars(PollTick(k))
       /\ WF_vars(PollAgain(k))
       /\ WF_vars(PollExit(k))

FairPoller == InitPoller /\ [][NextPoller]_vars /\ PollerFairness

\* The Poller on a single Source, with a ticker that fires more than once.
InitLoop ==
  InitWith([f \in {1} |-> FeedRow(TRUE)], [f \in FeedIds |-> <<Item("p1", "a")>>],
           Budget(MaxLoopTicks, 0, 0, MaxStorageErrs, 0, 0))

FairLoop == InitLoop /\ [][NextPoller]_vars /\ PollerFairness

\* The same Poller on a single Source with nothing assumed of the scheduler.
SpecLoop == InitLoop /\ [][NextPoller]_vars

\* Manual refreshes on one handler goroutine while feeds are deleted (DELETE
\* /api/feeds/{id}, served on a goroutine of its own).
InitDel ==
  InitWith([f \in {1, 2} |-> FeedRow(TRUE)], SharedGuidDocs,
           Budget(0, MaxRequests, MaxDeletes, 0, 0, 0))

NextDel ==
  \/ FetchStep(FirstHandler)
  \/ RefreshAllFeeds(FirstHandler)
  \/ \E id \in FeedIds : RefreshFeed(FirstHandler, id)
  \/ Respond(FirstHandler)
  \/ \E id \in FeedIds : DeleteFeed(id)

SpecDel == InitDel /\ [][NextDel]_vars
\* the documents served in the ingestion scenarios: Source 1 has two entries,
\* Source 3 one; Source 2 serves the empty guid twice, or no entry at all
IngestDocs ==
  {[f \in FeedIds |-> CASE f = 1 -> <<Item("p1", "a"), Item("p2", "a")>>
                        [] f = 2 -> d
                        [] OTHER -> <<Item("p1", "a")>>] :
     d \in {<<Item("", "a"), Item("", "b")>>, <<>>}}

\* Manual refreshes one after the other, with storage calls that may fail; Sources
\* 1 and 2 are active, Source 3 is not.
InitIngest ==
  \E docs \in IngestDocs :
    InitWith([f \in FeedIds |-> FeedRow(f # 3)], docs,
             Budget(0, MaxRequests, 0, MaxStorageErrs, 0, 0))

SpecIngest == InitIngest /\ [][NextSeq]_vars
\* the enclosures an entry may carry
Enclosures == {[type |-> t, url |-> u] : t \in MimeTypes, u \in {"e1", "e2"}}

\* the sequences of at most n enclosures
RECURSIVE EnclosureLists(_)
EnclosureLists(n) ==
  IF n = 0 THEN {<<>>}
  ELSE LET shorter == EnclosureLists(n - 1)
       IN shorter \cup {Append(l, e) : l \in {x \in shorter : Len(x) = n - 1}, e \in Enclosures}

\* the raw entries a document may hold
RawItems ==
  {RawItem("p1", "a", pub, upd, img, encs) :
     pub \in 0..MaxTime, upd \in 0..MaxTime, img \in {<<>>, <<"">>, <<"u1">>},
     encs \in EnclosureLists(MaxEnclosures)}

\* One Source whose document holds one raw entry, any of RawItems, fetched once by
\* a manual refresh.
InitItem ==
  \E it \in RawItems :
    InitWith([f \in {1} |-> FeedRow(TRUE)], [f \in FeedIds |-> <<it>>],
             Budget(0, 1, 0, 0, 0, 0))

NextItemSpec ==
  \/ FetchFeedStep(FirstHandler)
  \/ RefreshFeed(FirstHandler, 1)
  \/ Respond(FirstHandler)

SpecItem == InitItem /\ [][NextItemSpec]_vars
\* One Source refreshed by hand again and again, while its publisher changes the
\* document and a reader marks posts read and unread.
InitEdit ==
  InitWith([f \in {1} |-> FeedRow(TRUE)], [f \in FeedIds |-> <<Item("p1", "a")>>],
           Budget(0, MaxRequests, 0, 0, MaxDocChanges, 0))

NextEdit ==
  \/ FetchFeedStep(FirstHandler)
  \/ RefreshFeed(FirstHandler, 1)
  \/ Respond(FirstHandler)
  \/ \E d \in Docs : DocChange(1, d)
  \/ \E id \in 1..(nextPostId - 1), isRead \in BOOLEAN : MarkPostAsRead(id, isRead)

SpecEdit == InitEdit /\ [][NextEdit]_vars
\* Two Sources refreshed by hand, one request after the other, while their
\* publishers change the documents; no storage call fails and nothing else writes.
InitRef ==
  InitWith([f \in {1, 2} |-> FeedRow(TRUE)], [f \in FeedIds |-> <<Item("p1", "a")>>],
           Budget(0, MaxRequests, 0, 0, MaxDocChanges, 0))

NextRef ==
  \/ FetchFeedStep(FirstHandler)
  \/ \E id \in {1, 2} : RefreshFeed(FirstHandler, id)
  \/ Respond(FirstHandler)
  \/ \E f \in {1, 2}, d \in Docs : DocChange(f, d)

SpecRef == InitRef /\ [][NextRef]_vars

\* a caller that starts the Poller only after it stopped it: "Stop()" before the
\* first "Start()", and "Start()" again after that
StartStopped == cancelled /\ Start

\* The Poller stopped first and started afterwards, on one Source whose retrieval
\* may fail.
InitStopped ==
  InitWith([f \in {1} |-> FeedRow(TRUE)], [f \in FeedIds |-> <<Item("p1", "a")>>],
           Budget(MaxTicks, 0, 0, 0, 0, 0))

NextStopped ==
  \/ \E p \in PollerProcs : FetchStep(p)
  \/ Stop
  \/ StartStopped
  \/ \E k \in 1..MaxStarts : InitialFetch(k)
  \/ \E k \in 1..MaxStarts : InitialDone(k)
  \/ \E k \in 1..MaxStarts : Tick(k)
  \/ \E k \in 1..MaxStarts : PollTick(k)
  \/ \E k \in 1..MaxStarts : PollAgain(k)
  \/ \E k \in 1..MaxStarts : PollExit(k)

SpecStopped == InitStopped /\ [][NextStopped]_vars

\* a caller that calls "Start()" on a Poller it has not stopped, more than once
StartRunning == ~cancelled /\ Start

\* The Poller started again while it runs, on one Source whose retrieval may fail.
InitDouble ==
  InitWith([f \in {1} |-> FeedRow(TRUE)], [f \in FeedIds |-> <<Item("p1", "a")>>],
           Budget(MaxTicks, 0, 0, 0, 0, 0))

NextDouble ==
  \/ \E p \in PollerProcs : FetchStep(p)
  \/ StartRunning
  \/ MainStop
  \/ \E k \in 1..MaxStarts : InitialFetch(k)
  \/ \E k \in 1..MaxStarts : InitialDone(k)
  \/ \E k \in 1..MaxStarts : Tick(k)
  \/ \E k \in 1..MaxStarts : PollTick(k)
  \/ \E k \in 1..MaxStarts : PollAgain(k)
  \/ \E k \in 1..MaxStarts : PollExit(k)

SpecDouble == InitDouble /\ [][NextDouble]_vars

\* the Source whose server may accept the request and never answer
Unreachable == 1

\* goroutine p is inside parser.ParseURL for the unreachable Source
AwaitsUnreachable(p) == proc[p].pc = "parse" /\ CurFeed(proc[p]) = Unreachable

\* a step of FetchAllFeeds other than the return of that retrieval
ReturningStep(p) == FetchStep(p) /\ ~AwaitsUnreachable(p)

\* As PollerFairness, but nothing is assumed of the retrieval from the unreachable
\* Source: gofeed.NewParser() is used as it is, with no timeout and no context, so
\* that call returns only if the server lets it.
HangFairness ==
  /\ \A p \in PollerProcs : WF_vars(ReturningStep(p))
  /\ \A k \in 1..MaxStarts :
       /\ WF_vars(InitialFetch(k))
       /\ WF_vars(InitialDone(k))
       /\ WF_vars(PollTick(k))
       /\ WF_vars(PollAgain(k))
       /\ WF_vars(PollExit(k))

\* The Poller as main runs it, on two Sources of which the first may never answer.
InitHang ==
  InitWith([f \in {1, 2} |-> FeedRow(TRUE)], [f \in FeedIds |-> <<Item("p1", "a")>>],
           Budget(MaxLoopTicks, 0, 0, 0, 0, 0))

FairHang == InitHang /\ [][NextPoller]_vars /\ HangFairness

\* the requests of a client that waits for each answer before it sends the next:
\* "DELETE /api/posts" and "PATCH /api/posts/{id}/read" between two refreshes
DeleteAllPostsQuiet == proc[FirstHandler].pc = "idle" /\ DeleteAllPosts

MarkPostAsReadQuiet(id, isRead) == proc[FirstHandler].pc = "idle" /\ MarkPostAsRead(id, isRead)

\* Two Sources refreshed by hand with all posts deleted in between; the documents
\* do not change and no storage call fails.
InitWipe ==
  InitWith([f \in {1, 2} |-> FeedRow(TRUE)], SharedGuidDocs,
           Budget(0, MaxRequests, MaxDeletes, 0, 0, 0))

NextWipe ==
  \/ FetchFeedStep(FirstHandler)
  \/ \E id \in {1, 2} : RefreshFeed(FirstHandler, id)
  \/ Respond(FirstHandler)
  \/ DeleteAllPostsQuiet
  \/ \E id \in 1..(nextPostId - 1), isRead \in BOOLEAN : MarkPostAsReadQuiet(id, isRead)

SpecWipe == InitWipe /\ [][NextWipe]_vars

\* Refresh-all cycles on one handler goroutine while Sources are deactivated and
\* activated again (PUT /api/feeds/{id}, served on a goroutine of its own).
InitToggle ==
  InitWith([f \in {1, 2} |-> FeedRow(TRUE)], [f \in FeedIds |-> <<Item("p1", "a")>>],
           Budget(0, MaxRequests, 0, 0, 0, 0))

NextToggle ==
  \/ FetchStep(FirstHandler)
  \/ RefreshAllFeeds(FirstHandler)
  \/ Respond(FirstHandler)
  \/ \E id \in {1, 2}, isActive \in BOOLEAN : UpdateFeed(id, isActive)

SpecToggle == InitToggle /\ [][NextToggle]_vars

\* ===================================================================== claims
\* is a post with this (feed_id, guid) stored?
Stored(f, g) == \E q \in posts : q.feed_id = f /\ q.guid = g

\* the stored posts with this (feed_id, guid)
RowsOf(f, g) == {q \in posts : q.feed_id = f /\ q.guid = g}

\* no DeleteAllPosts has run so far
NoDeleteYet == budget.deletes = MaxDeletes

\* no direct CreatePost call has run so far
NoDirectYet == budget.direct = MaxDirect

\* the goroutine is inside FetchFeed, past the retrieval
InFetchFeed(p) == proc[p].pc \in {"check", "create", "now", "stamp"}

\* the ids of the active feeds in a slice GetAllFeeds returned
ActiveIds(list) == {list[i].id : i \in {j \in 1..Len(list) : list[j].is_active}}

\* the guids of a document
GuidsOf(d) == {d[i].guid : i \in 1..Len(d)}

\* the stored posts of a Source
PostsOf(f) == {q \in posts : q.feed_id = f}

\* C1: in every reachable state, no two stored posts have the same (feed_id, guid)
\* pair, whatever FetchFeed invocations, direct CreatePost calls and DeleteAllPosts
\* have interleaved.
C1_GuidUniquePerFeed ==
  \A q1, q2 \in posts : (q1.feed_id = q2.feed_id /\ q1.guid = q2.guid) => q1 = q2

\* an insert was rejected as a duplicate, posts were deleted and fetched again
C1_Witness ==
  /\ \E p \in Procs : proc[p].lost # {}
  /\ ~NoDeleteYet
  /\ Cardinality(posts) >= 2

\* C2: when overlapping FetchFeed invocations both attempt CreatePost for the same
\* (feed, guid), exactly one insert succeeds (as long as nothing was deleted); the
\* one whose insert is rejected does not count the entry as new, goes on with its
\* remaining entries, runs the last_fetched_at update and returns nil.
C2_RaceLoserSkips ==
  NoDeleteYet =>
    /\ \A p \in Procs : \A pair \in proc[p].lost :
         /\ Cardinality(RowsOf(pair[1], pair[2])) = 1
         /\ pair \notin proc[p].made
    /\ \A p, q \in Procs : p # q => proc[p].made \cap proc[q].made = {}
    /\ \A p \in Procs : InFetchFeed(p) =>
         proc[p].newPostCount =
           Cardinality({m \in proc[p].made : m[1] = CurFeed(proc[p])})
    /\ \A p \in Procs : (proc[p].pc = "ret" /\ proc[p].lost # {}) =>
         /\ proc[p].err = "nil"
         /\ \A pair \in proc[p].lost :
              /\ pair[1] \in proc[p].stamped
              /\ \A i \in 1..Len(doc[pair[1]]) : Stored(pair[1], doc[pair[1]][i].guid)

\* two overlapping FetchFeed runs attempted the same insert: one made it, the other
\* lost it and has returned
C2_Witness ==
  /\ NoDeleteYet
  /\ NoDirectYet
  /\ \E p, q \in Procs : \E pair \in proc[p].lost :
       /\ p # q
       /\ pair \in proc[q].made
       /\ proc[p].pc = "ret"
       /\ proc[p].made # {}

\* C4: the existence check and the uniqueness constraint are scoped to the Source:
\* a rejected insert always has a stored post of the same Source, and a FetchFeed
\* that ran to its end leaves a post for every guid of its document (as long as
\* nothing was deleted), whatever other Sources have stored under the same guid.
C4_CrossSourceGuidReuse ==
  NoDeleteYet =>
    /\ \A p \in Procs : \A pair \in proc[p].lost : Stored(pair[1], pair[2])
    /\ \A p \in Procs : proc[p].pc = "ret" =>
         \A f \in proc[p].stamped :
           \A i \in 1..Len(doc[f]) : Stored(f, doc[f][i].guid)

\* both Sources hold a post with guid p1, and Source 2's was inserted by a FetchFeed
\* while Source 1's was already stored
C4_Witness ==
  /\ NoDeleteYet
  /\ \E p \in Procs :
       /\ proc[p].pc = "ret"
       /\ <<2, "p1">> \in proc[p].made
  /\ \E q1, q2 \in posts :
       /\ q1.feed_id = 1 /\ q1.guid = "p1"
       /\ q2.feed_id = 2 /\ q2.guid = "p1"
       /\ q1.id < q2.id


\* the goroutine's FetchFeed runs for a Source that an earlier FetchFeed has
\* already run through (its last_fetched_at is set)
Refetch(p) == InFetchFeed(p) /\ feeds[CurFeed(proc[p])].last_fetched_at # NULL

\* C3: when FetchFeed is run for a Source again, after an earlier run has completed,
\* against the unchanged document and with nothing deleted in between, it creates no
\* post, the Source's stored posts stay as they were (one per guid of the document),
\* and its last_fetched_at update stores a later time than the earlier run's.
C3_IdempotentRefetch ==
  /\ [](\A p \in Procs : Refetch(p) =>
          /\ proc[p].newPostCount = 0
          /\ \A g \in GuidsOf(proc[p].items) : Cardinality(RowsOf(CurFeed(proc[p]), g)) = 1
          /\ Cardinality(PostsOf(CurFeed(proc[p]))) = Cardinality(GuidsOf(proc[p].items)))
  /\ [][\A p \in Procs : Refetch(p) =>
          /\ posts' = posts
          /\ proc[p].pc = "stamp" =>
               feeds'[CurFeed(proc[p])].last_fetched_at
                 > feeds[CurFeed(proc[p])].last_fetched_at]_vars

\* the second RefreshFeed of Source 1 has returned: it made nothing, the two posts
\* of the first run are there, and last_fetched_at went from 1 to 2
C3_Witness ==
  /\ clock = 2
  /\ feeds[1].last_fetched_at = 2
  /\ Cardinality(PostsOf(1)) = 2
  /\ \E p \in Procs :
       /\ proc[p].pc = "ret"
       /\ proc[p].kind = "one"
       /\ proc[p].stamped = {1}
       /\ proc[p].made = {}
       /\ proc[p].now = 2

\* C5: one FetchAllFeeds calls FetchFeed for every Source listed as active, however
\* many of them failed retrieval; every Source whose retrieval succeeded has its
\* entries stored and its last_fetched_at updated.
C5_PartialFailureIsolation ==
  \A p \in Procs : (proc[p].pc = "ret" /\ proc[p].kind = "all") =>
    /\ proc[p].fetched = ActiveIds(proc[p].list)
    /\ \A f \in proc[p].fetched \ proc[p].failed :
         /\ f \in proc[p].stamped
         /\ feeds[f].last_fetched_at # NULL
         /\ \A g \in GuidsOf(doc[f]) : Stored(f, g)

\* three active Sources, listed as 1, 3, 2: the retrieval of the second one failed,
\* and this FetchAllFeeds inserted the entries of the first and the third
C5_Witness ==
  \E p \in Procs :
    /\ proc[p].pc = "ret"
    /\ proc[p].kind = "all"
    /\ Len(proc[p].list) = 3
    /\ proc[p].failed = {proc[p].list[2].id}
    /\ proc[p].stamped = {proc[p].list[1].id, proc[p].list[3].id}
    /\ \A f \in proc[p].stamped : \A g \in GuidsOf(doc[f]) : <<f, g>> \in proc[p].made

\* a FetchAllFeeds invocation of the Poller begins in this step: the first goroutine
\* calls it, or the loop's select took a tick
Begins(p) == proc[p].pc \in {"spawned", "select"} /\ proc'[p].pc = "list"

\* C6: once Stop() has returned, no goroutine of the Poller begins a FetchAllFeeds.
C6_NoFetchAfterStop ==
  [][cancelled => \A p \in PollerProcs : ~Begins(p)]_vars

\* C7: Start() returns with both goroutines spawned and no fetch begun (it waits for
\* none), and under fair scheduling the first goroutine's FetchAllFeeds begins,
\* whether or not the ticker ever fires.
C7_StartTriggersInitialFetch ==
  /\ [][started' # started =>
          /\ proc'[InitOf(started')].pc = "spawned"
          /\ proc'[LoopOf(started')].pc = "select"
          /\ \A p \in PollerProcs : ~InFlight(p)']_vars
  /\ (started > 0) ~> (\A k \in 1..started : proc[InitOf(k)].pc # "spawned")

\* the first goroutine has begun its FetchAllFeeds: no tick has fired, nothing was
\* stopped, and the loop still waits in its select
C7_Witness ==
  /\ started = 1
  /\ ~cancelled
  /\ tickC[1] = 0
  /\ proc[InitOf(1)].pc = "parse"
  /\ proc[LoopOf(1)].pc = "select"
  /\ proc[LoopOf(1)].prev = "none"

\* C8: the loop ends only from its select and only when the context is cancelled;
\* whatever a FetchAllFeeds returned, the loop's next step is back to the select; and
\* under fair scheduling a tick buffered while the Poller is not stopped leads to a
\* further FetchAllFeeds.
C8_LoopEndsOnlyByStop ==
  /\ [](\A k \in 1..MaxStarts : proc[LoopOf(k)].pc = "exited" => cancelled)
  /\ [][\A k \in 1..MaxStarts :
          /\ (proc[LoopOf(k)].pc # "exited" /\ proc'[LoopOf(k)].pc = "exited")
               => (proc[LoopOf(k)].pc = "select" /\ cancelled)
          /\ (proc[LoopOf(k)].pc = "ret" /\ proc'[LoopOf(k)] # proc[LoopOf(k)])
               => proc'[LoopOf(k)].pc = "select"]_vars
  /\ \A k \in 1..MaxStarts :
       (proc[LoopOf(k)].pc \in {"select", "ret"} /\ tickC[k] = 1 /\ ~cancelled)
         ~> (proc[LoopOf(k)].pc = "list" \/ cancelled)

\* the loop's first FetchAllFeeds failed to list the Sources; a further tick has
\* triggered a second one, which is at work, and the Poller is not stopped
C8_Witness ==
  /\ ~cancelled
  /\ budget.ticks = 0
  /\ proc[LoopOf(1)].prev = "err"
  /\ proc[LoopOf(1)].pc = "create"

C11_CascadingOwnership ==
  /\ [](\A q \in posts : q.feed_id \in DOMAIN feeds)
  /\ [](\A p \in Procs : (proc[p].pc = "ret" /\ proc[p].kind = "one") =>
          \A f \in proc[p].fetched \ DOMAIN feeds :
            /\ PostsOf(f) = {}
            /\ f \notin proc[p].failed => proc[p].err = "nil")
  /\ [][\A id \in DOMAIN feeds \ DOMAIN feeds' :
          posts' = {q \in posts : q.feed_id # id}]_vars

\* RefreshFeed(1) inserted p1, then feed 1 was deleted with its post; the insert of
\* p2 was rejected, and the FetchFeed has returned
C11_Witness ==
  /\ 1 \notin DOMAIN feeds
  /\ \E p \in Procs :
       /\ proc[p].pc = "ret"
       /\ proc[p].kind = "one"
       /\ proc[p].made = {<<1, "p1">>}
       /\ proc[p].lost = {<<1, "p2">>}
       /\ proc[p].err = "nil"

\* the ids of the feeds a slice GetAllFeeds returned lists as inactive
InactiveIds(list) == {list[i].id : i \in {j \in 1..Len(list) : ~list[j].is_active}}

\* C12: a FetchAllFeeds calls FetchFeed for no Source its list shows as inactive,
\* and no step of it changes such a Source's posts or its row of feeds.
C12_InactiveSourceSkipped ==
  /\ [](\A p \in Procs : proc[p].kind = "all" =>
          proc[p].fetched \cap InactiveIds(proc[p].list) = {})
  /\ [][\A p \in Procs : (proc[p].kind = "all" /\ proc'[p] # proc[p]) =>
          \A f \in InactiveIds(proc[p].list) :
            /\ {q \in posts' : q.feed_id = f} = PostsOf(f)
            /\ feeds'[f] = feeds[f]]_vars

\* Source 3, inactive, was fetched by RefreshFeed and holds a post; a FetchAllFeeds
\* then listed three Sources, fetched 1 and 2 and returned
C12_Witness ==
  /\ ~feeds[3].is_active
  /\ feeds[3].last_fetched_at = 1
  /\ PostsOf(3) # {}
  /\ \E p \in Procs :
       /\ proc[p].pc = "ret"
       /\ proc[p].kind = "all"
       /\ Len(proc[p].list) = 3
       /\ proc[p].stamped = {1, 2}

\* the raw entry a stored post was made from: the entry of its Source's document
\* with the post's guid that comes first
EntryOf(q) ==
  LET d == doc[q.feed_id]
      i == CHOOSE j \in 1..Len(d) :
             d[j].guid = q.guid /\ \A k \in 1..(j - 1) : d[k].guid # q.guid
  IN d[i]

\* C13: a stored post's published_at is its entry's published time when it has
\* one, else its updated time when it has one, else null.
C13_PublishedTimeResolution ==
  \A q \in posts :
    /\ EntryOf(q).published # NULL => q.published_at = EntryOf(q).published
    /\ (EntryOf(q).published = NULL /\ EntryOf(q).updated # NULL) =>
         q.published_at = EntryOf(q).updated
    /\ (EntryOf(q).published = NULL /\ EntryOf(q).updated = NULL) =>
         q.published_at = NULL

\* a post was stored from an entry with an updated time and no published time
C13_Witness ==
  \E q \in posts :
    /\ EntryOf(q).published = NULL
    /\ EntryOf(q).updated = MaxTime
    /\ q.published_at = MaxTime

\* the positions of an entry's enclosures whose type begins with "image"
ImagePositions(it) ==
  {i \in 1..Len(it.enclosures) :
     /\ Len(it.enclosures[i].type) >= Len(ImageWord)
     /\ \A k \in 1..Len(ImageWord) : it.enclosures[i].type[k] = ImageWord[k]}

C15_FailureLeavesStateUnchanged ==
  /\ [][\A p \in Procs : (proc[p].pc = "parse" /\ proc'[p].failed # proc[p].failed) =>
          /\ posts' = posts
          /\ feeds' = feeds
          /\ proc'[p].pc \in {"ret", "parse"}
          /\ proc'[p].made = proc[p].made
          /\ proc'[p].stamped = proc[p].stamped
          /\ proc[p].kind = "one" => (proc'[p].pc = "ret" /\ proc'[p].err = "err")]_vars
  /\ [](\A p \in Procs : \A f \in proc[p].failed :
          /\ f \notin proc[p].stamped
          /\ \A m \in proc[p].made : m[1] # f)

\* Source 1 was fetched once, and a second RefreshFeed failed its retrieval: the
\* two posts and the timestamp of the first fetch are as they were
C15_Witness ==
  /\ feeds[1].last_fetched_at = 1
  /\ clock = 1
  /\ Cardinality(PostsOf(1)) = 2
  /\ \E p \in Procs :
       /\ proc[p].pc = "ret"
       /\ proc[p].kind = "one"
       /\ proc[p].failed = {1}
       /\ proc[p].err = "err"

\* C16: once the retrieval succeeded, no step over the entries ends FetchFeed: it
\* goes on until the timestamp update, which runs once, writes the time just read
\* (unless the write itself fails) and is FetchFeed's last step, returning nil.
C16_TimestampAlwaysReached ==
  /\ [][\A p \in Procs : proc'[p] # proc[p] =>
          /\ (proc[p].pc = "parse" /\ proc'[p].failed = proc[p].failed) =>
               proc'[p].pc \in {"check", "now"}
          /\ proc[p].pc \in {"check", "create"} =>
               (proc'[p].pc \in {"check", "create", "now"} /\ proc'[p].fi = proc[p].fi)
          /\ proc[p].pc = "now" =>
               (proc'[p].pc = "stamp" /\ proc'[p].fi = proc[p].fi /\ proc'[p].now = clock')
          /\ proc[p].pc = "stamp" =>
               /\ proc[p].now = clock
               /\ proc'[p].pc \in {"ret", "parse"}
               /\ proc[p].kind = "one" => (proc'[p].pc = "ret" /\ proc'[p].err = "nil")
               /\ \/ /\ feeds'[CurFeed(proc[p])].last_fetched_at = clock
                     /\ CurFeed(proc[p]) \in proc'[p].stamped
                  \/ /\ budget'.errs < budget.errs
                     /\ feeds' = feeds]_vars
  /\ [](\A p \in Procs : (proc[p].pc = "ret" /\ budget.errs = MaxStorageErrs) =>
          proc[p].stamped = proc[p].fetched \ proc[p].failed)

\* RefreshFeed of Source 2, whose document has no entry, has returned nil with
\* last_fetched_at written
C16_Witness ==
  /\ doc[2] = <<>>
  /\ feeds[2].last_fetched_at = clock
  /\ clock > 0
  /\ \E p \in Procs :
       /\ proc[p].pc = "ret"
       /\ proc[p].kind = "one"
       /\ proc[p].stamped = {2}
       /\ proc[p].made = {}
       /\ proc[p].err = "nil"

\* the guids of the document a FetchFeed parsed that are not stored for its Source
Missing(p) == {g \in GuidsOf(proc[p].items) : ~Stored(CurFeed(proc[p]), g)}

\* C17: a storage error of the existence check or of the insert skips that one
\* entry: the step creates no post and counts none, FetchFeed goes on with the next
\* entry (or the timestamp update), and returns nil; at its return at most as many
\* guids of the document are missing as storage calls have failed.
C17_PerEntryFailureIsolation ==
  /\ [][\A p \in Procs :
          (proc[p].pc \in {"check", "create"} /\ budget'.errs < budget.errs) =>
            /\ posts' = posts
            /\ proc'[p].newPostCount = proc[p].newPostCount
            /\ proc'[p].fi = proc[p].fi
            /\ IF proc[p].ii < Len(proc[p].items)
               THEN proc'[p].pc = "check" /\ proc'[p].ii = proc[p].ii + 1
               ELSE proc'[p].pc = "now"]_vars
  /\ [](\A p \in Procs : (proc[p].pc = "ret" /\ proc[p].kind = "one" /\ proc[p].failed = {}) =>
          /\ proc[p].err = "nil"
          /\ Cardinality(Missing(p)) <= MaxStorageErrs - budget.errs)

\* RefreshFeed of Source 1: the first entry was skipped on a storage error, the
\* second was inserted, and FetchFeed returned nil
C17_Witness ==
  /\ budget.errs < MaxStorageErrs
  /\ ~Stored(1, "p1")
  /\ \E p \in Procs :
       /\ proc[p].pc = "ret"
       /\ proc[p].kind = "one"
       /\ proc[p].made = {<<1, "p2">>}
       /\ proc[p].stamped = {1}
       /\ proc[p].err = "nil"

C19_ExistingPostUntouched ==
  [][(\E p \in Procs : proc'[p] # proc[p]) => posts \subseteq posts']_vars

\* the post of guid p1 was stored with title a and marked read; the document then
\* changed the entry's title to b, and a FetchFeed that parsed the changed document
\* has returned: the post still has title a and is read
C19_Witness ==
  /\ posts = {[PostRow(1, 1, Item("p1", "a")) EXCEPT !.is_read = TRUE]}
  /\ \E p \in Procs :
       /\ proc[p].pc = "ret"
       /\ proc[p].stamped = {1}
       /\ proc[p].items = <<Item("p1", "b"), Item("p1", "a")>>
       /\ proc[p].made = {}

\* the guids stored for a Source
StoredGuids(f) == {q.guid : q \in PostsOf(f)}

\* the guids a FetchFeed invocation has inserted for a Source
MadeGuids(p, f) == {m[2] : m \in {x \in proc[p].made : x[1] = f}}

\* the guids that were stored for the Source when the FetchFeed began
BeforeGuids(p, f) == StoredGuids(f) \ MadeGuids(p, f)

\* C20: with no storage error and no other writer, a FetchFeed(S) that returned nil
\* leaves stored for S the guids stored before united with the document's guids;
\* it counted as new the distinct document guids not stored before; every post it
\* created is new, has feed_id = S, the guid of the entry at hand and is unread;
\* and no step of it touches the posts or the row of another Source.
C20_FetchFeedReference ==
  /\ [](\A p \in Procs :
          (proc[p].pc = "ret" /\ proc[p].kind = "one" /\ proc[p].failed = {}) =>
            LET S == CurFeed(proc[p])
            IN /\ StoredGuids(S) = BeforeGuids(p, S) \cup GuidsOf(proc[p].items)
               /\ proc[p].newPostCount =
                    Cardinality(GuidsOf(proc[p].items) \ BeforeGuids(p, S))
               /\ Cardinality(PostsOf(S)) = Cardinality(StoredGuids(S))
               /\ \A g \in MadeGuids(p, S) :
                    \E q \in PostsOf(S) : q.guid = g /\ ~q.is_read
               /\ feeds[S].last_fetched_at = proc[p].now)
  /\ [][\A p \in Procs : (InFlight(p) /\ proc'[p] # proc[p]) =>
          LET S == CurFeed(proc[p])
          IN /\ posts \subseteq posts'
             /\ \A q \in posts' \ posts :
                  /\ q.feed_id = S
                  /\ q.guid = CurItem(proc[p]).guid
                  /\ q.guid \notin StoredGuids(S)
                  /\ ~q.is_read
                  /\ posts' = posts \cup {q}
             /\ \A f \in DOMAIN feeds \ {S} : feeds'[f] = feeds[f]]_vars

\* Source 1 was fetched when its document held p1 only, the document then gained
\* p2, and a second FetchFeed of Source 1 returned: p1 was stored before, p2 is the
\* one post it created, and Source 2 is as it was
C20_Witness ==
  /\ feeds[2] = FeedRow(TRUE)
  /\ \E p \in Procs :
       /\ proc[p].pc = "ret"
       /\ proc[p].kind = "one"
       /\ CurFeed(proc[p]) = 1
       /\ GuidsOf(proc[p].items) = {"p1", "p2"}
       /\ BeforeGuids(p, 1) = {"p1"}
       /\ proc[p].newPostCount = 1

\* a tick fires for Poller k in this step (its ticker runs and the runtime sends)
TickFires(k) == tickerOn[k] /\ budget'.ticks < budget.ticks

\* C21: while the Poller is not stopped every tick triggers a FetchAllFeeds of its
\* own, so no tick is lost: a tick that fires finds the slot of ticker.C free, also
\* when the FetchAllFeeds of an earlier tick has not been begun or has not returned.
C21_EveryTickTriggers ==
  [][\A k \in 1..MaxStarts : (TickFires(k) /\ ~cancelled) => tickC[k] = 0]_vars

\* C22: Stopped is terminal.  Where every Start() follows the Stop(), no goroutine
\* of the Poller is ever past the point where it would call FetchAllFeeds: the
\* first goroutine of a Start has not run, and the loop waits in its select or has
\* returned.
C22_StoppedIsTerminal ==
  \A k \in 1..MaxStarts :
    /\ proc[InitOf(k)].pc \in {"unborn", "spawned"}
    /\ proc[LoopOf(k)].pc \in {"unborn", "select", "exited"}

\* C23: double start is guarded.  However often Start() is called on a running
\* Poller, at most one of its immediate goroutines has called FetchAllFeeds and at
\* most one timer loop (goroutine and ticker) exists.
C23_DoubleStartGuarded ==
  /\ Cardinality({k \in 1..MaxStarts : proc[InitOf(k)].pc \notin {"unborn", "spawned"}}) <= 1
  /\ Cardinality({k \in 1..MaxStarts : proc[LoopOf(k)].pc # "unborn"}) <= 1
  /\ Cardinality({k \in 1..MaxStarts : tickerOn[k]}) <= 1

\* C24: one unreachable Source cannot stall polling.  Also when its retrieval never
\* returns, a FetchAllFeeds that waits for it goes on to the Sources after it, a
\* buffered tick leads to a further FetchAllFeeds unless the Poller is stopped, and
\* after Stop() every loop returns.
C24_UnreachableCannotStall ==
  /\ \A p \in PollerProcs :
       AwaitsUnreachable(p) ~> (\A i \in 1..Len(proc[p].list) : proc[p].list[i].id \in proc[p].fetched)
  /\ \A k \in 1..MaxStarts :
       (tickC[k] = 1 /\ ~cancelled) ~> (proc[LoopOf(k)].pc = "list" \/ cancelled)
  /\ \A k \in 1..MaxStarts :
       (cancelled /\ proc[LoopOf(k)].pc # "unborn") ~> (proc[LoopOf(k)].pc = "exited")

\* C25: a FetchAllFeeds returns an error only from its listing step, having listed
\* and fetched nothing; once the Sources are listed it returns nil, whatever the
\* retrievals and storage calls of the cycle did (the handler of the refresh-all
\* endpoint answers with a failure exactly when it is given an error).
C25_ErrorOnlyFromListing ==
  /\ [](\A p \in Procs : (proc[p].kind = "all" /\ proc[p].pc = "ret") =>
          /\ proc[p].err \in {"nil", "err"}
          /\ proc[p].err = "err" => (proc[p].list = <<>> /\ proc[p].fetched = {})
          /\ proc[p].list # <<>> => proc[p].err = "nil")
  /\ [][\A p \in Procs :
          (proc[p].kind = "all" /\ proc[p].pc # "ret" /\ proc'[p].pc = "ret"
             /\ proc'[p].err = "err") => proc[p].pc = "list"]_vars

\* a refresh-all cycle has returned nil although the retrieval of every active
\* Source failed
C25_Witness ==
  \E p \in Procs :
    /\ proc[p].kind = "all"
    /\ proc[p].pc = "ret"
    /\ proc[p].err = "nil"
    /\ proc[p].fetched = {1, 2}
    /\ proc[p].failed = {1, 2}

\* C26: the last_fetched_at of a Source never decreases, whatever FetchFeed
\* invocations run and however they overlap: no step replaces a stored timestamp
\* by an earlier one.
C26_LastFetchedNeverDecreases ==
  [][\A f \in DOMAIN feeds \cap DOMAIN feeds' :
       feeds'[f].last_fetched_at >= feeds[f].last_fetched_at]_vars

\* the goroutines of the Poller that are inside a FetchAllFeeds
PollerInFlight == {p \in PollerProcs : InFlight(p)}

\* C27: for a Poller started once, the loop takes a tick from ticker.C, and begins a
\* FetchAllFeeds, only while it waits in its select, so never while its previous
\* FetchAllFeeds is in flight; and at most two FetchAllFeeds of the Poller are in
\* flight, of which at most one is the loop's.
C27_TickFetchesNeverOverlap ==
  /\ [][\A k \in 1..MaxStarts :
          /\ (tickC[k] = 1 /\ tickC'[k] = 0) => proc[LoopOf(k)].pc = "select"
          /\ (proc'[LoopOf(k)].pc = "list" /\ proc'[LoopOf(k)] # proc[LoopOf(k)])
               => proc[LoopOf(k)].pc = "select"]_vars
  /\ [](/\ Cardinality(PollerInFlight) <= 2
        /\ Cardinality(PollerInFlight \cap Loops) <= 1)

\* the initial FetchAllFeeds and a tick-triggered one are in flight together, and a
\* further tick waits in ticker.C
C27_Witness ==
  /\ started = 1
  /\ proc[InitOf(1)].pc = "parse"
  /\ proc[LoopOf(1)].pc = "create"
  /\ tickC[1] = 1

\* the ids of the stored posts
PostIds(P) == {q.id : q \in P}

\* C28: what was fetched before is known from the stored posts alone.  A FetchFeed
\* that returned nil with its retrieval done leaves one post for every distinct guid
\* of the document; if the Source had no post when it began (after DeleteAllPosts as
\* at the very first fetch) it has created every one of them; the posts it created
\* are unread; and a created post gets an id never issued before, which
\* DeleteAllPosts does not give back.
C28_DedupStateIsStoredPosts ==
  /\ [](\A p \in Handlers :
          (proc[p].pc = "ret" /\ proc[p].kind = "one" /\ proc[p].failed = {}) =>
            LET f == proc[p].list[1].id
            IN /\ StoredGuids(f) = GuidsOf(doc[f])
               /\ \A g \in GuidsOf(doc[f]) : Cardinality(RowsOf(f, g)) = 1
               /\ BeforeGuids(p, f) = {} =>
                    /\ MadeGuids(p, f) = GuidsOf(doc[f])
                    /\ proc[p].newPostCount = Cardinality(GuidsOf(doc[f]))
               /\ \A q \in PostsOf(f) : q.guid \in MadeGuids(p, f) => ~q.is_read)
  /\ [][/\ PostIds(posts') \ PostIds(posts) \subseteq nextPostId..(nextPostId' - 1)
        /\ nextPostId' >= nextPostId]_vars

\* Source 1 was fetched, all posts were deleted, and the
\* second fetch of the unchanged document has created both posts again, unread and
\* under new ids
C28_Witness ==
  /\ budget.deletes < MaxDeletes
  /\ proc[FirstHandler].pc = "ret"
  /\ proc[FirstHandler].fetched = {1}
  /\ proc[FirstHandler].made = {<<1, "p1">>, <<1, "p2">>}
  /\ PostIds(posts) = {3, 4}
  /\ \A q \in posts : ~q.is_read
  /\ feeds[1].last_fetched_at = 2

\* C29: only FetchAllFeeds looks at is_active.  A refresh request for a Source that
\* exists begins a FetchFeed whether the Source is active or not, and a FetchFeed of
\* an inactive Source that returned nil (its retrieval done, no storage call having
\* failed) has stored the document's entries and updated last_fetched_at, and has
\* left the Source inactive.
C29_RefreshIgnoresActiveFlag ==
  /\ [][\A h \in Handlers :
          (Free(h) /\ budget'.reqs < budget.reqs /\ FeedIds \subseteq DOMAIN feeds)
            => proc'[h].pc \in {"list", "parse"}]_vars
  /\ [](\A h \in Handlers :
          (/\ proc[h].pc = "ret"
           /\ proc[h].kind = "one"
           /\ ~proc[h].list[1].is_active
           /\ proc[h].failed = {}
           /\ budget.errs = MaxStorageErrs) =>
            LET f == proc[h].list[1].id
            IN /\ proc[h].stamped = {f}
               /\ feeds[f].last_fetched_at = proc[h].now
               /\ feeds[f].last_fetched_at # NULL
               /\ GuidsOf(doc[f]) \subseteq StoredGuids(f)
               /\ ~feeds[f].is_active)

\* the refresh of the inactive Source 3 has inserted its entry and set its
\* last_fetched_at
C29_Witness ==
  /\ ~feeds[3].is_active
  /\ proc[FirstHandler].pc = "ret"
  /\ proc[FirstHandler].kind = "one"
  /\ proc[FirstHandler].made = {<<3, "p1">>}
  /\ proc[FirstHandler].stamped = {3}
  /\ feeds[3].last_fetched_at # NULL
  /\ \E q \in posts : q.feed_id = 3 /\ q.guid = "p1" /\ ~q.is_read

\* the Sources whose row says is_active = 1 now
ActiveNow == {f \in DOMAIN feeds : feeds[f].is_active}

\* C30: a FetchAllFeeds decides from the one list it read when it began.  The list
\* read gives the rows as they are at that moment, so a Source deactivated before it
\* is listed inactive (in this cycle and in every later one until it is activated);
\* the list is not read again during the cycle; FetchFeed is called only for Sources
\* listed active, and by the return for every one of them, whatever UpdateFeed did
\* to the rows meanwhile.
C30_ActiveFlagReadOnceAtListing ==
  /\ [][\A p \in Handlers :
          /\ (proc[p].pc = "list" /\ proc'[p].pc # "list" /\ proc'[p].err # "err")
               => ActiveIds(proc'[p].list) = ActiveNow
          /\ (InFlight(p) /\ proc[p].pc # "list" /\ proc'[p].pc # "idle")
               => proc'[p].list = proc[p].list]_vars
  /\ [](\A p \in Handlers : proc[p].kind = "all" =>
          /\ proc[p].fetched \subseteq ActiveIds(proc[p].list)
          /\ (proc[p].pc = "ret" /\ proc[p].err = "nil") =>
               proc[p].fetched = ActiveIds(proc[p].list))

\* Source 2 was deactivated after the list was read and before its turn: the cycle
\* has fetched it all the same, inserted its entry and updated its last_fetched_at
C30_Witness ==
  \E p \in Handlers :
    /\ proc[p].kind = "all"
    /\ proc[p].pc = "ret"
    /\ proc[p].stale = {2}
    /\ proc[p].stamped = {1, 2}
    /\ <<2, "p1">> \in proc[p].made
    /\ ~feeds[2].is_active

\* C10: every FetchFeed invocation, also one whose retrieval fails, updates the
\* Source's last_fetched_at, and a failed one also writes error_count and last_error.
C10_BookkeepingAfterEveryAttempt ==
  \A p \in Procs : proc[p].pc = "ret" =>
    \A f \in proc[p].fetched :
      /\ feeds[f].last_fetched_at # NULL
      /\ f \in proc[p].failed =>
           (feeds[f].error_count > 0 /\ feeds[f].last_error # NULL)

====
